---- MODULE Spec2Model ----
(***************************************************************************)
(* A model of the JSON path algebra of drizzle-pg-utils: jsonAccess,       *)
(* jsonSet / $default, jsonSetPipe, jsonMerge, jsonCoalesce and jsonBuild  *)
(* compile host values and navigation chains into SQL fragments; the       *)
(* fragments are then evaluated with the semantics of the PostgreSQL       *)
(* jsonb functions they call.                                              *)
(***************************************************************************)
EXTENDS Integers, Sequences, FiniteSets, TLC

VARIABLES
  api,       \* the entry point in use: "none", "access", "set", "pipe", "merge"
  src,       \* the source fragment handed to the entry point
  node,      \* the accessor or setter node the caller holds
  out,       \* the fragment (or exception) the last terminal call returned
  chain,     \* the members and calls applied to the root node so far
  fns,       \* the functions handed to jsonSetPipe
  operands,  \* the operands of the last jsonMerge call
  shape,     \* the declared type of the setter node the caller holds
  callers    \* the nodes held by several callers that share one root

vars == <<api, src, node, out, chain, fns, operands, shape, callers>>

(***************************************************************************)
(* Bounds of the model.                                                    *)
(***************************************************************************)
MaxPath == 3
MaxChain == 6
MaxDefaults == 2
MaxPipe == 2
MaxMerge == 2
MaxPush == 2
MaxIndex == 3
MaxDepth == 2
NumCallers == 2
MaxNodes == 4

(***************************************************************************)
(* SQL fragments.  A fragment is a tree: op names the SQL function,        *)
(* operator or kind of leaf, s is the text of a leaf, args the embedded    *)
(* sub-fragments in the order in which they appear in the template.        *)
(***************************************************************************)
Frag(op, s, args) == [op |-> op, s |-> s, args |-> args]

NoFrag == Frag("none", "", <<>>)

\* A table column used as the JSON source.
Column == Frag("column", "data", <<>>)

\* Literal SQL text (sql.raw or the constant part of a template).
Raw(text) == Frag("raw", text, <<>>)

\* A bound parameter: kind is the host type of the value, text the value.
Param(kind, text) == Frag("param_" \o kind, text, <<>>)

\* A value written into the text of the query instead of being bound.
Inline(kind, text) == Frag("inline_" \o kind, text, <<>>)

Call(fn, args) == Frag(fn, "", args)

\* An exception thrown by the host code instead of a returned fragment.
Thrown(name) == Frag("throw", name, <<>>)

BoolText(b) == IF b THEN "true" ELSE "false"

Digits == <<"0", "1", "2", "3", "4", "5", "6", "7", "8", "9">>

RECURSIVE NatText(_)
NatText(n) ==
  IF n < 10 THEN Digits[n + 1]
  ELSE NatText(n \div 10) \o Digits[(n % 10) + 1]

\* Number.prototype.toString of an integer.
NumberText(i) == IF i < 0 THEN "-" \o NatText(-i) ELSE NatText(i)

ParamKinds == {"param_string", "param_boolean", "param_number"}

InlineOf(op) == CASE op = "param_string" -> "inline_string"
                  [] op = "param_boolean" -> "inline_boolean"
                  [] op = "param_number" -> "inline_number"

\* SQL.inlineParams(): every parameter inside the fragment, embedded
\* fragments included, is written inline.
RECURSIVE inlineParams(_)
inlineParams(f) ==
  IF f.op \in ParamKinds
    THEN Frag(InlineOf(f.op), f.s, <<>>)
    ELSE Frag(f.op, f.s, [i \in 1..Len(f.args) |-> inlineParams(f.args[i])])

(***************************************************************************)
(* Host (JavaScript) values handed to $set, $default and jsonBuild.        *)
(***************************************************************************)
Host(t, s, a, e, f) == [t |-> t, s |-> s, a |-> a, e |-> e, f |-> f]

HStr(s) == Host("string", s, <<>>, <<>>, NoFrag)
HNum(s) == Host("number", s, <<>>, <<>>, NoFrag)
HBool(b) == Host("boolean", BoolText(b), <<>>, <<>>, NoFrag)
HNull == Host("null", "null", <<>>, <<>>, NoFrag)
HUndef == Host("undefined", "", <<>>, <<>>, NoFrag)
HArr(a) == Host("array", "", a, <<>>, NoFrag)
HObj(e) == Host("object", "", <<>>, e, NoFrag)
HSql(f) == Host("sql", "", <<>>, <<>>, f)
Entry(k, v) == [k |-> k, v |-> v]

\* Array.prototype.join on texts.
RECURSIVE JoinTexts(_, _)
JoinTexts(texts, sep) ==
  IF Len(texts) = 0 THEN ""
  ELSE IF Len(texts) = 1 THEN texts[1]
  ELSE texts[1] \o sep \o JoinTexts(Tail(texts), sep)

\* JSON.stringify of an SQL wrapper: the wrapper is an object like any
\* other, so its own fields are written, never the SQL it stands for.
WrapperText == "{\"queryChunks\":[]}"

\* JSON.stringify: no whitespace; an undefined array element is written
\* as null and an undefined object entry is left out.
RECURSIVE JSONStringify(_)
JSONStringify(h) ==
  CASE h.t = "string" -> "\"" \o h.s \o "\""
    [] h.t = "number" -> h.s
    [] h.t = "boolean" -> h.s
    [] h.t = "null" -> "null"
    [] h.t = "sql" -> WrapperText
    [] h.t = "array" ->
         "[" \o JoinTexts([i \in 1..Len(h.a) |->
                             IF h.a[i].t = "undefined" THEN "null"
                             ELSE JSONStringify(h.a[i])], ",") \o "]"
    [] h.t = "object" ->
         LET entries == SelectSeq(h.e, LAMBDA x : x.v.t # "undefined")
         IN "{" \o JoinTexts([i \in 1..Len(entries) |->
                                "\"" \o entries[i].k \o "\":"
                                  \o JSONStringify(entries[i].v)], ",")
              \o "}"

isSQLWrapper(h) == h.t = "sql"

\* Variant of buildPrimitive: the value is written with String(value).
buildPrimitiveUnquoted(h) == Call("cast_jsonb", <<Param("string", h.s)>>)

\* The primitive branch of processValue.
buildPrimitive(h) ==
  IF h.t = "undefined"
    THEN Call("cast_jsonb", <<Frag("undefined", "", <<>>)>>)
    ELSE Call("cast_jsonb", <<Param("string", JSONStringify(h))>>)

\* Variant of processValue: an undefined object entry is written as null,
\* as an undefined array element is.
RECURSIVE processValueNullEntries(_)
processValueNullEntries(h) ==
  IF isSQLWrapper(h) THEN h.f
  ELSE IF h.t = "array" THEN
    LET elems == [i \in 1..Len(h.a) |->
                    IF h.a[i].t = "undefined" THEN HNull ELSE h.a[i]]
    IN Call("jsonb_build_array",
            [i \in 1..Len(elems) |-> processValueNullEntries(elems[i])])
  ELSE IF h.t = "object" THEN
    Call("jsonb_build_object",
         [j \in 1..(2 * Len(h.e)) |->
            IF j % 2 = 1
              THEN inlineParams(Param("string", h.e[(j + 1) \div 2].k))
              ELSE processValueNullEntries(
                     IF h.e[j \div 2].v.t = "undefined"
                       THEN HNull ELSE h.e[j \div 2].v)])
  ELSE buildPrimitive(h)

RECURSIVE processValue(_)
processValue(h) ==
  IF isSQLWrapper(h) THEN h.f
  ELSE IF h.t = "array" THEN
    LET elems == [i \in 1..Len(h.a) |->
                    IF h.a[i].t = "undefined" THEN HNull ELSE h.a[i]]
    IN Call("jsonb_build_array", [i \in 1..Len(elems) |-> processValue(elems[i])])
  ELSE IF h.t = "object" THEN
    LET entries == SelectSeq(h.e, LAMBDA x : x.v.t # "undefined")
    IN Call("jsonb_build_object",
            [j \in 1..(2 * Len(entries)) |->
               IF j % 2 = 1
                 THEN inlineParams(Param("string", entries[(j + 1) \div 2].k))
                 ELSE processValue(entries[j \div 2].v)])
  ELSE buildPrimitive(h)

jsonBuild(value) == processValue(value)

(***************************************************************************)
(* Null normalisation and coalescing.                                      *)
(***************************************************************************)
JsonNullLiteral == Raw("'null'::jsonb")

normalizeNullish(value) == Call("coalesce", <<value, JsonNullLiteral>>)

\* Variant of jsonCoalesce that always takes the default.
jsonCoalesceAlwaysDefault(source, value) == value

\* Variant of jsonCoalesce that only replaces SQL NULL, keeping JSON null.
jsonCoalesceSqlOnly(source, value) == Call("coalesce", <<source, value>>)

\* json_query(<normalized source>, 'strict $ ? (@ != null)'
\*            default <value> on empty)::jsonb
jsonCoalesce(source, value) ==
  Call("json_query_default", <<normalizeNullish(source), value>>)

(***************************************************************************)
(* jsonAccess.                                                             *)
(***************************************************************************)
Node(source, path) == [source |-> source, path |-> path]

NoNode == Node(NoFrag, <<>>)

\* sql.join(path, sql`,`): the segments are parameters until inlined.
buildPathArgs(path) == [i \in 1..Len(path) |-> Param("string", path[i])]

\* Variant of buildPath: one nested call per segment.
RECURSIVE buildPathNested(_, _)
buildPathNested(source, path) ==
  IF Len(path) = 0
    THEN source
    ELSE inlineParams(Call("jsonb_extract_path",
           <<buildPathNested(source, SubSeq(path, 1, Len(path) - 1)),
             Param("string", path[Len(path)])>>))

buildPath(source, path) ==
  IF Len(path) = 0
    THEN source
    ELSE inlineParams(Call("jsonb_extract_path", <<source>> \o buildPathArgs(path)))

\* createProxy always calls buildValue(path) without a property.
buildValue(source, path) ==
  inlineParams(Call("jsonb_extract_path_text", <<source>> \o buildPathArgs(path)))

\* property ? [...path, property] : path
createValue(source, path, property) ==
  Node(source, IF property # "" THEN Append(path, property) ELSE path)

(***************************************************************************)
(* jsonSet.                                                                *)
(***************************************************************************)
setPathArgs(path) ==
  [i \in 1..Len(path) |-> inlineParams(Param("string", path[i]))]

setPathArray(path) == Call("array_text", setPathArgs(path))

createMissingFlag(createMissing) ==
  inlineParams(Param("boolean", BoolText(createMissing)))

\* Variant of buildSet: the createMissing argument is dropped.
buildSetAlwaysCreate(source, path, value, createMissing) ==
  IF Len(path) = 0
    THEN Thrown("Error")
    ELSE Call("jsonb_set",
              <<source, setPathArray(path), jsonBuild(value),
                createMissingFlag(TRUE)>>)

buildSet(source, path, value, createMissing) ==
  LET setValueSQL == jsonBuild(value)
  IN IF Len(path) = 0
       THEN Thrown("Error")
       ELSE Call("jsonb_set",
                 <<source, setPathArray(path), setValueSQL,
                   createMissingFlag(createMissing)>>)

\* Variant of defaultSource: the default is written without consulting
\* the source.
defaultSourceOverwrite(source, path, value, createMissing) ==
  Call("jsonb_set",
       <<source, setPathArray(path), jsonBuild(value),
         createMissingFlag(createMissing)>>)

\* The source of the setter that $default returns.
defaultSource(source, path, value, createMissing) ==
  LET defaultValueSQL == jsonBuild(value)
  IN Call("jsonb_set",
          <<source, setPathArray(path),
            jsonCoalesce(Call("jsonb_extract_path", <<source>> \o setPathArgs(path)),
                         defaultValueSQL),
            createMissingFlag(createMissing)>>)

\* buildDefault returns _jsonSet(<new source>, path): a setter rooted at the
\* synthesized source whose proxy starts at the same path.
\* Variant of buildDefault: the returned setter starts again at the root.
buildDefaultAtRoot(source, path, value, createMissing) ==
  Node(defaultSource(source, path, value, createMissing), <<>>)

buildDefault(source, path, value, createMissing) ==
  Node(defaultSource(source, path, value, createMissing), path)

(***************************************************************************)
(* The call chain a caller applies to a setter: navigation steps,          *)
(* $default calls and one final $set.                                      *)
(***************************************************************************)
Step(op, m, v, cm) == [op |-> op, m |-> m, v |-> v, cm |-> cm]
Nav(m) == Step("nav", m, HUndef, "omitted")
Dflt(v, cm) == Step("$default", "", v, cm)
SetTo(v, cm) == Step("$set", "", v, cm)
GetPath == Step("$path", "", HUndef, "omitted")
GetValue == Step("$value", "", HUndef, "omitted")
Sym(description) == Step("symbol", description, HUndef, "omitted")

\* The descriptions of the symbols used as members: a well-known symbol
\* and one whose description is a key of the document.
SymbolDescriptions == {"Symbol.iterator", "profile"}

\* Variant of getSymbol: the symbol is coerced to its description.
getSymbolCoerced(nd, description) ==
  [node |-> Node(nd.source, Append(nd.path, description)), out |-> NoFrag]

\* The get trap of the proxy for a member with typeof property === 'symbol':
\* it throws before anything else; no node is created.
getSymbol(nd, description) == [node |-> nd, out |-> Thrown("TypeError")]

\* The createMissing argument as the caller passes it, and the default
\* parameter value (createMissing = true) that applies when it is omitted.
FlagArgs == {"omitted", "true", "false"}

withDefaultTrue(flag) == IF flag = "omitted" THEN TRUE ELSE flag = "true"

\* The get trap of the setter proxy applied along a chain that ends in
\* $set: a member extends the path, $default re-roots the setter, $set
\* returns the fragment.
RECURSIVE applyChain(_, _)
applyChain(nd, steps) ==
  LET st == Head(steps)
  IN CASE st.op = "nav" ->
            applyChain(createValue(nd.source, nd.path, st.m), Tail(steps))
       [] st.op = "$default" ->
            IF Len(nd.path) = 0
              THEN Thrown("Error")
              ELSE applyChain(buildDefault(nd.source, nd.path, st.v,
                                           withDefaultTrue(st.cm)),
                              Tail(steps))
       [] st.op = "$set" ->
            buildSet(nd.source, nd.path, st.v, withDefaultTrue(st.cm))

\* jsonSet(source): the root setter.
jsonSet(source) == createValue(source, <<>>, "")

\* args.reduce((acc, fn) => fn(jsonSet(acc)), initial)
RECURSIVE reduce(_, _)
reduce(args, acc) ==
  IF Len(args) = 0
    THEN acc
    ELSE reduce(Tail(args), applyChain(jsonSet(acc), Head(args)))

Reverse(seq) == [i \in 1..Len(seq) |-> seq[Len(seq) + 1 - i]]

\* Variant of jsonSetPipe: the functions are applied right to left.
jsonSetPipeRightToLeft(source, args) ==
  reduce(Reverse(args), normalizeNullish(source))

jsonSetPipe(source, args) == reduce(args, normalizeNullish(source))

(***************************************************************************)
(* jsonMerge.                                                              *)
(***************************************************************************)
\* Variant of jsonMerge: the operands change sides.
jsonMergeSwapped(left, right) ==
  Call("concat", <<normalizeNullish(right), normalizeNullish(left)>>)

\* Variant of jsonMerge: the operands are not null-normalized.
jsonMergeRaw(left, right) == Call("concat", <<left, right>>)

jsonMerge(left, right) ==
  Call("concat", <<normalizeNullish(left), normalizeNullish(right)>>)

(***************************************************************************)
(* jsonArrayPush, jsonArraySet, jsonArrayDelete.                           *)
(***************************************************************************)
EmptyArrayLiteral == Raw("'[]'::jsonb")

\* Variant of valueOrEmptyArray: only SQL NULL is replaced.
valueOrEmptyArraySqlOnly(value) ==
  Call("coalesce", <<value, EmptyArrayLiteral>>)

valueOrEmptyArray(value) == jsonCoalesce(value, EmptyArrayLiteral)

\* isSQLWrapper(value) ? value : sql`${JSON.stringify(value)}::jsonb`
arrayValue(value) ==
  IF isSQLWrapper(value) THEN value.f
  ELSE IF value.t = "undefined"
    THEN Call("cast_jsonb", <<Frag("undefined", "", <<>>)>>)
    ELSE Call("cast_jsonb", <<Param("string", JSONStringify(value))>>)

\* Variant of jsonArrayPush: the first value is concatenated as it is.
jsonArrayPushSpliced(target, values) ==
  Call("concat", <<valueOrEmptyArray(target), arrayValue(values[1])>>)

jsonArrayPush(target, values) ==
  Call("concat",
       <<valueOrEmptyArray(target),
         Call("jsonb_build_array",
              [i \in 1..Len(values) |-> arrayValue(values[i])])>>)

\* '{<index>}': the text of a one-element text[] literal, the index
\* written inline.
pathLiteral(index) == Call("path_literal", <<Inline("number", NumberText(index))>>)

\* Variant of jsonArraySet: missing elements are not created.
jsonArraySetNoCreate(target, index, value) ==
  Call("jsonb_set", <<valueOrEmptyArray(target), pathLiteral(index),
                      arrayValue(value), Inline("boolean", "false")>>)

jsonArraySet(target, index, value) ==
  Call("jsonb_set", <<valueOrEmptyArray(target), pathLiteral(index),
                      arrayValue(value)>>)

\* Variant of jsonArrayDelete: the sign of the index is dropped.
jsonArrayDeleteAbs(target, index) ==
  Call("minus", <<valueOrEmptyArray(target),
                  Inline("number",
                         NumberText(IF index < 0 THEN -index ELSE index))>>)

jsonArrayDelete(target, index) ==
  Call("minus", <<valueOrEmptyArray(target),
                  Inline("number", NumberText(index))>>)

Count(seq, op) == Cardinality({i \in 1..Len(seq) : seq[i].op = op})

\* Member names used for navigation; the empty string is a property name
\* like any other for the proxy.
Keys == {"profile", "preferences", "theme"}

Members == Keys \cup {""}

\* Any member name: a key, the empty string or a decimal index.
AnyMembers == Members \cup {"0"}

RawSettings == Raw("jsonb_build_object('theme', 'light')")

SetValues == {HStr("dark"),
              HObj(<<Entry("theme", HStr("light"))>>),
              HSql(RawSettings)}

DefaultValues == {HObj(<<>>),
                  HObj(<<Entry("preferences", HObj(<<>>))>>)}

Sources == {Column}

\* The functions handed to jsonSetPipe: each takes a root setter and
\* returns the fragment of a $set.
PipeFns ==
  {<<Nav("profile"), Nav("theme"), SetTo(HStr("dark"), "omitted")>>,
   <<Nav("theme"), SetTo(HStr("light"), "omitted")>>,
   <<Nav("theme"), SetTo(HStr("dark"), "false")>>,
   <<Nav("theme"), SetTo(HStr("light"), "false")>>,
   <<Nav("profile"), Nav("theme"), SetTo(HStr("light"), "omitted")>>,
   <<Nav("profile"), Dflt(HObj(<<>>), "omitted"), Nav("preferences"),
     SetTo(HObj(<<Entry("theme", HStr("light"))>>), "omitted")>>}

\* The literal operands of jsonMerge, besides the column.
MergeLiterals ==
  {Raw("NULL::jsonb"), Raw("'null'::jsonb"), Raw("'3'::jsonb"),
   Raw("'[]'::jsonb"), Raw("'[1, 2]'::jsonb"), Raw("'{}'::jsonb"),
   Raw("'{\"a\": 1, \"b\": 2}'::jsonb"), Raw("'{\"b\": 3}'::jsonb")}

\* The targets of the array operations: the column, literals, and the
\* result of an earlier push.
ArrayTargets ==
  {Column, Raw("NULL::jsonb"), Raw("'null'::jsonb"), Raw("'[]'::jsonb"),
   Raw("'[1, 2]'::jsonb"), jsonArrayPush(Column, <<HNum("3")>>)}

\* The values pushed or set: plain host values and an SQL fragment.
ArrayValues ==
  {HNum("3"), HStr("x"), HNull, HArr(<<HNum("1"), HNum("2")>>),
   HObj(<<Entry("a", HNum("1"))>>), HSql(Raw("'3'::jsonb"))}

Indexes == (-MaxIndex)..MaxIndex

\* The literals handed to jsonBuild that contain no other literal.
BuildLeaves ==
  {HStr("x"), HStr(""), HNum("0"), HNum("3"), HBool(TRUE), HBool(FALSE),
   HNull, HArr(<<>>), HObj(<<>>), HSql(Column),
   HObj(<<Entry("a", HUndef)>>)}

\* The values placed next to a nested literal.
BuildSiblings ==
  {HStr("x"), HNum("0"), HNull, HUndef, HSql(Column), HArr(<<>>)}

\* The literals that hold v at an interior position.
Wraps(v) ==
  {HArr(<<v>>)}
    \cup {HArr(<<v, l>>) : l \in BuildSiblings}
    \cup {HArr(<<l, v>>) : l \in BuildSiblings}
    \cup {HObj(<<Entry(k, v)>>) : k \in {"a", "b"}}
    \cup {HObj(<<Entry("a", v), Entry("b", l)>>) : l \in BuildSiblings}
    \cup {HObj(<<Entry("b", l), Entry("a", v)>>) : l \in BuildSiblings}

\* The number of literals around the innermost one.
RECURSIVE Depth(_)
Depth(h) ==
  IF h.t = "array" /\ Len(h.a) > 0 THEN
    1 + (IF Len(h.a) = 1 \/ Depth(h.a[1]) >= Depth(h.a[2])
           THEN Depth(h.a[1]) ELSE Depth(h.a[2]))
  ELSE IF h.t = "object" /\ Len(h.e) > 0 THEN
    1 + (IF Len(h.e) = 1 \/ Depth(h.e[1].v) >= Depth(h.e[2].v)
           THEN Depth(h.e[1].v) ELSE Depth(h.e[2].v))
  ELSE 0

\* The fragments handed to jsonCoalesce: the column, literals, and built
\* primitives, the falsy ones among them.
CoalesceOperands ==
  {Column, Raw("NULL::jsonb"), Raw("'null'::jsonb"), Raw("'[]'::jsonb"),
   Raw("'{}'::jsonb"), Raw("'3'::jsonb"), Raw("'[1, 2]'::jsonb"),
   jsonBuild(HBool(FALSE)), jsonBuild(HNum("0")), jsonBuild(HStr("")),
   jsonBuild(HStr("x"))}

\* The nesting of merges in the left or right operand.
RECURSIVE MergeDepth(_)
MergeDepth(f) ==
  IF f.op = "concat"
    THEN 1 + (IF MergeDepth(f.args[1].args[1]) > MergeDepth(f.args[2].args[1])
                THEN MergeDepth(f.args[1].args[1])
                ELSE MergeDepth(f.args[2].args[1]))
    ELSE 0

(***************************************************************************)
(* Values of the store: jsonb values, SQL NULL, and a raised SQL error.    *)
(* An object is a function from its keys to values (jsonb keeps keys       *)
(* unique and unordered), an array a sequence.                             *)
(***************************************************************************)
J(t, s, a, o) == [t |-> t, s |-> s, a |-> a, o |-> o]

JNull == J("null", "null", <<>>, <<>>)
JStr(s) == J("string", s, <<>>, <<>>)
JNum(s) == J("number", s, <<>>, <<>>)
JBool(s) == J("boolean", s, <<>>, <<>>)
JArr(a) == J("array", "", a, <<>>)
JObj(o) == J("object", "", <<>>, o)
SqlNull == J("sqlnull", "", <<>>, <<>>)
SqlError == J("error", "", <<>>, <<>>)

IsScalar(j) == j.t \in {"null", "string", "number", "boolean"}

Put(j, k, v) ==
  JObj([x \in (DOMAIN j.o) \cup {k} |-> IF x = k THEN v ELSE j.o[x]])

\* The scalars that occur as parameter texts in the model.
StringTexts == {"", "dark", "light", "x", "John", "a.jpg"}
NumberTexts == {"0", "1", "2", "3"}

JsonScalars ==
  {JNull, JBool("true"), JBool("false")}
    \cup {JStr(s) : s \in StringTexts} \cup {JNum(n) : n \in NumberTexts}

\* The keys of an object in the order of one JSON text of it.
RECURSIVE KeySeq(_)
KeySeq(keys) ==
  IF keys = {} THEN <<>>
  ELSE LET k == CHOOSE x \in keys : TRUE
       IN <<k>> \o KeySeq(keys \ {k})

\* A JSON text of a jsonb value, without whitespace.
RECURSIVE JsonText(_)
JsonText(j) ==
  CASE j.t = "string" -> "\"" \o j.s \o "\""
    [] j.t = "array" ->
         "[" \o JoinTexts([i \in 1..Len(j.a) |-> JsonText(j.a[i])], ",")
             \o "]"
    [] j.t = "object" ->
         LET ks == KeySeq(DOMAIN j.o)
         IN "{" \o JoinTexts([i \in 1..Len(ks) |->
                                "\"" \o ks[i] \o "\":"
                                  \o JsonText(j.o[ks[i]])], ",") \o "}"
    [] OTHER -> j.s

\* The jsonb values whose texts occur in the model: scalars, arrays of up
\* to two scalars, one array nested in an array, and objects of at most
\* one key.
JsonValues ==
  JsonScalars
    \cup {JArr(<<>>), JObj(<<>>)}
    \cup {JArr(<<a>>) : a \in JsonScalars}
    \cup {JArr(<<a, b>>) : a \in JsonScalars, b \in JsonScalars}
    \cup {JArr(<<JArr(<<a>>)>>) : a \in JsonScalars}
    \cup {JObj(k :> a) : k \in {"a", "theme"}, a \in JsonScalars}

\* The jsonb input function as a table from text to value.
ParseTable ==
  [text \in {JsonText(j) : j \in JsonValues} |->
     CHOOSE j \in JsonValues : JsonText(j) = text]

\* '<text>'::jsonb: the jsonb input function applied to the text; a text
\* that is not JSON raises.
ParseJsonb(text) ==
  IF text \in DOMAIN ParseTable THEN ParseTable[text] ELSE SqlError

\* The literal fragments that occur as raw SQL text.
RawValue(text) ==
  CASE text = "'null'::jsonb" -> JNull
    [] text = "NULL::jsonb" -> SqlNull
    [] text = "'[]'::jsonb" -> JArr(<<>>)
    [] text = "'{}'::jsonb" -> JObj(<<>>)
    [] text = "jsonb_build_object('theme', 'light')" ->
         JObj("theme" :> JStr("light"))
    [] text = "'3'::jsonb" -> JNum("3")
    [] text = "'[1, 2]'::jsonb" -> JArr(<<JNum("1"), JNum("2")>>)
    [] text = "'{\"a\": 1, \"b\": 2}'::jsonb" ->
         JObj(("a" :> JNum("1")) @@ ("b" :> JNum("2")))
    [] text = "'{\"b\": 3}'::jsonb" -> JObj("b" :> JNum("3"))
    [] OTHER -> SqlError

\* Path elements and indexes that parse as integers.
IntOf ==
  [s \in {NumberText(i) : i \in -20..20} |->
     CHOOSE i \in -20..20 : NumberText(i) = s]

IsIntText(s) == s \in DOMAIN IntOf

\* jsonb_extract_path(from, VARIADIC path): SQL NULL when the path does
\* not lead to a value; a JSON null found at the path is returned as is.
RECURSIVE ExtractPath(_, _)
ExtractPath(j, path) ==
  IF Len(path) = 0 THEN j
  ELSE IF j.t = "object" THEN
    IF Head(path) \in DOMAIN j.o
      THEN ExtractPath(j.o[Head(path)], Tail(path))
      ELSE SqlNull
  ELSE IF j.t = "array" THEN
    IF ~IsIntText(Head(path)) THEN SqlNull
    ELSE LET n == Len(j.a)
             i == IntOf[Head(path)]
             idx == IF i < 0 THEN n + i ELSE i
         IN IF idx >= 0 /\ idx < n
              THEN ExtractPath(j.a[idx + 1], Tail(path))
              ELSE SqlNull
  ELSE SqlNull

\* setPath of jsonb_set: replaces the value at the path; creates only the
\* last element of the path, and only when create is true; leaves the
\* target unchanged when an earlier element of the path is missing.
RECURSIVE SetPath(_, _, _, _)
SetPath(j, path, v, create) ==
  LET last == Len(path) = 1
      key == Head(path)
  IN
  IF j.t = "object" THEN
    IF key \in DOMAIN j.o THEN
      IF last THEN Put(j, key, v)
      ELSE LET inner == SetPath(j.o[key], Tail(path), v, create)
           IN IF inner = SqlError THEN SqlError ELSE Put(j, key, inner)
    ELSE IF last /\ create THEN Put(j, key, v) ELSE j
  ELSE IF j.t = "array" THEN
    IF ~IsIntText(key) THEN SqlError
    ELSE
      LET n == Len(j.a)
          i == IntOf[key]
          before == i < 0 /\ -i > n
          idx == IF i < 0 THEN n + i ELSE IF i > n THEN n ELSE i
      IN IF (before \/ n = 0) /\ last /\ create THEN JArr(<<v>> \o j.a)
         ELSE IF before THEN j
         ELSE IF idx < n THEN
           IF last THEN JArr([j.a EXCEPT ![idx + 1] = v])
           ELSE LET inner == SetPath(j.a[idx + 1], Tail(path), v, create)
                IN IF inner = SqlError THEN SqlError
                   ELSE JArr([j.a EXCEPT ![idx + 1] = inner])
         ELSE IF last /\ create THEN JArr(Append(j.a, v)) ELSE j
  ELSE j

Size(j) == IF j.t = "object" THEN Cardinality(DOMAIN j.o) ELSE Len(j.a)

\* jsonb_set(target, path, new_value, create_missing) is strict.
JsonbSet(target, path, v, create) ==
  IF target = SqlError \/ v = SqlError THEN SqlError
  ELSE IF target = SqlNull \/ v = SqlNull THEN SqlNull
  ELSE IF IsScalar(target) THEN SqlError
  ELSE IF Size(target) = 0 /\ ~create THEN target
  ELSE IF Len(path) = 0 THEN target
  ELSE SetPath(target, path, v, create)

\* jsonb - integer: deletes the array element with the index, negative
\* indexes counting from the end; raises when the value is not an array.
JsonbDeleteIndex(j, i) ==
  IF j = SqlError THEN SqlError
  ELSE IF j = SqlNull THEN SqlNull
  ELSE IF j.t # "array" THEN SqlError
  ELSE LET n == Len(j.a)
           idx == IF i < 0 THEN n + i ELSE i
       IN IF idx < 0 \/ idx >= n THEN j
          ELSE JArr(SubSeq(j.a, 1, idx) \o SubSeq(j.a, idx + 2, n))

\* The path argument of jsonb_set: array[...]::text[] or '{...}'.
PathOf(f) ==
  IF f.op = "array_text" THEN [i \in 1..Len(f.args) |-> f.args[i].s]
  ELSE <<f.args[1].s>>

\* coalesce(a, b)
Coalesce(a, b) == IF a = SqlNull THEN b ELSE a

\* json_query(ctx, 'strict $ ? (@ != null)' default d on empty)::jsonb,
\* with d the value of the default expression.
JsonQueryDefault(ctx, d) ==
  IF ctx = SqlError THEN SqlError
  ELSE IF ctx = SqlNull THEN SqlNull
  ELSE IF ctx = JNull THEN d
  ELSE ctx

\* The elements an operand of || contributes to an array result.
Elements(j) == IF j.t = "array" THEN j.a ELSE <<j>>

\* left || right on jsonb (the operator is strict).
JsonbConcat(l, r) ==
  IF l = SqlError \/ r = SqlError THEN SqlError
  ELSE IF l = SqlNull \/ r = SqlNull THEN SqlNull
  ELSE IF l.t = "object" /\ r.t = "object" THEN
    JObj([k \in (DOMAIN l.o) \cup (DOMAIN r.o) |->
            IF k \in DOMAIN r.o THEN r.o[k] ELSE l.o[k]])
  ELSE JArr(Elements(l) \o Elements(r))

\* An argument of jsonb_build_array / jsonb_build_object: SQL NULL
\* becomes JSON null.
BuildArg(j) == IF j = SqlNull THEN JNull ELSE j

RECURSIVE BuildObject(_, _)
BuildObject(keys, vals) ==
  IF Len(keys) = 0 THEN JObj(<<>>)
  ELSE Put(BuildObject(SubSeq(keys, 1, Len(keys) - 1),
                       SubSeq(vals, 1, Len(vals) - 1)),
           keys[Len(keys)], BuildArg(vals[Len(vals)]))

HasError(seq) == \E i \in 1..Len(seq) : seq[i] = SqlError

\* The value a fragment evaluates to in a row whose column holds row.
RECURSIVE Eval(_, _)
Eval(f, row) ==
  LET arg(i) == Eval(f.args[i], row)
      n == Len(f.args)
  IN
  CASE f.op = "column" -> row
    [] f.op = "raw" -> RawValue(f.s)
    [] f.op = "cast_jsonb" ->
         IF f.args[1].op \in {"param_string", "inline_string"}
           THEN ParseJsonb(f.args[1].s)
           ELSE SqlError
    [] f.op = "coalesce" -> Coalesce(arg(1), arg(2))
    [] f.op = "json_query_default" -> JsonQueryDefault(arg(1), arg(2))
    [] f.op = "jsonb_extract_path" ->
         LET from == arg(1)
         IN IF from \in {SqlError, SqlNull} THEN from
            ELSE ExtractPath(from, [i \in 1..(n - 1) |-> f.args[i + 1].s])
    [] f.op = "jsonb_set" ->
         JsonbSet(arg(1), PathOf(f.args[2]), arg(3),
                  IF n >= 4 THEN f.args[4].s = "true" ELSE TRUE)
    [] f.op = "minus" ->
         IF IsIntText(f.args[2].s)
           THEN JsonbDeleteIndex(arg(1), IntOf[f.args[2].s])
           ELSE SqlError
    [] f.op = "concat" -> JsonbConcat(arg(1), arg(2))
    [] f.op = "jsonb_build_array" ->
         LET vals == [i \in 1..n |-> arg(i)]
         IN IF HasError(vals) THEN SqlError
            ELSE JArr([i \in 1..n |-> BuildArg(vals[i])])
    [] f.op = "jsonb_build_object" ->
         LET keys == [i \in 1..(n \div 2) |-> f.args[2 * i - 1].s]
             vals == [i \in 1..(n \div 2) |-> arg(2 * i)]
         IN IF HasError(vals) THEN SqlError ELSE BuildObject(keys, vals)
    [] OTHER -> SqlError

(***************************************************************************)
(* Proxies as objects: the proxies made so far, each with the source and   *)
(* the path its get trap closes over.                                      *)
(***************************************************************************)
Callers == 1..NumCallers

\* The value caller c writes: each caller has its own.
CallerValue(c) == HObj(<<Entry("caller", HNum(c))>>)

\* Variant of getMember: the path of the node is extended in place.
getMemberInPlace(nodes, id, property) ==
  [nodes |-> [nodes EXCEPT ![id] = createValue(@.source, @.path, property)],
   id |-> id]

\* The get trap for a member: createValue copies the path into a new array
\* and createProxy makes a new proxy over it.
getMember(nodes, id, property) ==
  [nodes |-> Append(nodes, createValue(nodes[id].source, nodes[id].path,
                                       property)),
   id |-> Len(nodes) + 1]

\* The function returned for $default: _jsonSet makes a new closure over
\* the synthesized source and a new proxy at the same path.
callDefault(nodes, id, value, createMissing) ==
  [nodes |-> Append(nodes, buildDefault(nodes[id].source, nodes[id].path,
                                        value, createMissing)),
   id |-> Len(nodes) + 1]

(***************************************************************************)
(* The declared types of the setter nodes (SQLJSONSet).  A declared type   *)
(* is a table from the paths of its members to their kind and to whether   *)
(* the member admits null or undefined.                                    *)
(***************************************************************************)
Ty(kind, nullish) == [kind |-> kind, nullish |-> nullish]

\* JsonType of the setter tests.
JsonType ==
  (<<>> :> Ty("object", FALSE))
    @@ (<<"id">> :> Ty("primitive", FALSE))
    @@ (<<"name">> :> Ty("primitive", FALSE))
    @@ (<<"profile">> :> Ty("object", FALSE))
    @@ (<<"profile", "avatar">> :> Ty("primitive", FALSE))
    @@ (<<"profile", "settings">> :> Ty("object", FALSE))
    @@ (<<"profile", "settings", "theme">> :> Ty("primitive", FALSE))
    @@ (<<"profile", "settings", "notifications">> :> Ty("primitive", FALSE))
    @@ (<<"tags">> :> Ty("array", FALSE))
    @@ (<<"tags", "0">> :> Ty("primitive", FALSE))
    @@ (<<"optionalObject">> :> Ty("object", TRUE))
    @@ (<<"optionalObject", "key">> :> Ty("primitive", TRUE))
    @@ (<<"optionalArray">> :> Ty("array", TRUE))
    @@ (<<"optionalArray", "0">> :> Ty("object", FALSE))
    @@ (<<"optionalArray", "0", "key">> :> Ty("primitive", TRUE))
    @@ (<<"optionalArray", "0", "key2">> :> Ty("primitive", TRUE))

\* The type of the source of the nested defaults of the integration tests.
NestedDefaults ==
  (<<>> :> Ty("object", FALSE))
    @@ (<<"user">> :> Ty("object", FALSE))
    @@ (<<"user", "name">> :> Ty("primitive", FALSE))
    @@ (<<"settings">> :> Ty("object", TRUE))
    @@ (<<"settings", "preferences">> :> Ty("object", TRUE))
    @@ (<<"settings", "preferences", "theme">> :> Ty("primitive", FALSE))
    @@ (<<"settings", "preferences", "notifications">>
          :> Ty("primitive", FALSE))

\* The type of the columns jsoncol and jsoncolNullable.
SomeJson ==
  (<<>> :> Ty("object", FALSE)) @@ (<<"some">> :> Ty("primitive", FALSE))

\* The type of the columns arraycol and arraycolNullable.
IdNameArray ==
  (<<>> :> Ty("array", FALSE))
    @@ (<<"0">> :> Ty("object", FALSE))
    @@ (<<"0", "id">> :> Ty("primitive", FALSE))
    @@ (<<"0", "name">> :> Ty("primitive", FALSE))

DeclaredTypes ==
  ("JsonType" :> JsonType) @@ ("SomeJson" :> SomeJson)
    @@ ("IdNameArray" :> IdNameArray) @@ ("NestedDefaults" :> NestedDefaults)

\* The typed sources: the SQL fragments of the tests and the four columns
\* of the test table.
TypedSources ==
  { [decl |-> "JsonType", value |-> "sql"],
    [decl |-> "NestedDefaults", value |-> "sql"],
    [decl |-> "SomeJson", value |-> "notNull"],
    [decl |-> "SomeJson", value |-> "nullable"],
    [decl |-> "IdNameArray", value |-> "notNull"],
    [decl |-> "IdNameArray", value |-> "nullable"] }

\* The type arguments of SQLJSONSet<Source, Value, Root>: Source, the path
\* of Value's type in the declared type of Source, whether null or
\* undefined is a member of that type, what kind of value Value is, and
\* Root.
Shape(source, path, nullish, value, root) ==
  [source |-> source, path |-> path, nullish |-> nullish, value |-> value,
   root |-> root]

NoShape == Shape([decl |-> "", value |-> ""], <<>>, FALSE, "", FALSE)

DeclaredAt(sh, path) == DeclaredTypes[sh.source.decl][path]

Declared(sh) == DeclaredAt(sh, sh.path)

SQLJSONIsNullish(sh) == sh.nullish

IsNullishType(sh) ==
  IF SQLJSONIsNullish(sh) THEN TRUE
  ELSE IF sh.value \in {"notNull", "nullable"} THEN sh.value # "notNull"
  ELSE FALSE

IsObject(sh) == Declared(sh).kind \in {"object", "array"}

\* keyof ObjectType: the members declared below the path.
KeysOf(sh) ==
  {p[Len(p)] : p \in {q \in DOMAIN DeclaredTypes[sh.source.decl] :
       Len(q) = Len(sh.path) + 1 /\ SubSeq(q, 1, Len(sh.path)) = sh.path}}

\* The members of the type SQLJSONSet<Source, Value, Root>.
SQLJSONSet(sh) ==
  (IF sh.root THEN {} ELSE {"$set"})
    \cup (IF IsNullishType(sh)
          THEN (IF IsObject(sh) THEN {"$default"} ELSE {})
          ELSE {})
    \cup (IF IsObject(sh) THEN KeysOf(sh) ELSE {})

\* The type of member K: SQLJSONSet<Source, SQL<ObjectType[K] | null>,
\* false> when the node is nullish or an array, SQL<ObjectType[K]> if not.
MemberType(sh, K) ==
  LET path == Append(sh.path, K)
  IN Shape(sh.source, path,
           DeclaredAt(sh, path).nullish
             \/ IsNullishType(sh) \/ Declared(sh).kind = "array",
           "sql", FALSE)

\* The return type of SQLJSONDefaultFn:
\* SQLJSONSet<Source, SQL<SQLJSONDenullify<Type>>, false>.
SQLJSONDefaultFn(sh) == Shape(sh.source, sh.path, FALSE, "sql", FALSE)

\* The type of jsonSet(source): SQLJSONSet<Source, Source, true>.
RootType(source) ==
  Shape(source, <<>>, DeclaredTypes[source.decl][<<>>].nullish,
        source.value, TRUE)

(***************************************************************************)
(* State machine: one caller holding a node and the last returned          *)
(* fragment.                                                               *)
(***************************************************************************)
Init ==
  /\ api = "none"
  /\ src = NoFrag
  /\ node = NoNode
  /\ out = NoFrag
  /\ chain = <<>>
  /\ fns = <<>>
  /\ operands = <<>>
  /\ shape = NoShape
  /\ callers = <<>>

JsonAccess ==
  \E source \in Sources :
    /\ api = "none"
    /\ api' = "access"
    /\ src' = source
    /\ node' = createValue(source, <<>>, "")
    /\ UNCHANGED <<out, chain, fns, operands, shape, callers>>

AccessGet ==
  \E property \in Members :
    /\ api = "access"
    /\ out = NoFrag
    /\ Count(chain, "nav") < MaxPath
    /\ node' = createValue(node.source, node.path, property)
    /\ chain' = Append(chain, Nav(property))
    /\ UNCHANGED <<api, src, out, fns, operands, shape, callers>>

AccessPath ==
  /\ api = "access"
  /\ out = NoFrag
  /\ out' = buildPath(node.source, node.path)
  /\ chain' = Append(chain, GetPath)
  /\ UNCHANGED <<api, src, node, fns, operands, shape, callers>>

AccessValue ==
  /\ api = "access"
  /\ out = NoFrag
  /\ out' = buildValue(node.source, node.path)
  /\ chain' = Append(chain, GetValue)
  /\ UNCHANGED <<api, src, node, fns, operands, shape, callers>>

JsonSet ==
  \E source \in Sources :
    /\ api = "none"
    /\ api' = "set"
    /\ src' = source
    /\ node' = jsonSet(source)
    /\ UNCHANGED <<out, chain, fns, operands, shape, callers>>

SetGet ==
  \E property \in Keys :
    /\ api = "set"
    /\ out = NoFrag
    /\ Len(chain) + 1 < MaxChain
    /\ node' = createValue(node.source, node.path, property)
    /\ chain' = Append(chain, Nav(property))
    /\ UNCHANGED <<api, src, out, fns, operands, shape, callers>>

SetSet ==
  \E value \in SetValues, createMissing \in FlagArgs :
    /\ api = "set"
    /\ out = NoFrag
    /\ out' = buildSet(node.source, node.path, value,
                       withDefaultTrue(createMissing))
    /\ chain' = Append(chain, SetTo(value, createMissing))
    /\ UNCHANGED <<api, src, node, fns, operands, shape, callers>>

SetDefault ==
  \E value \in DefaultValues, createMissing \in FlagArgs :
    /\ api = "set"
    /\ out = NoFrag
    /\ Len(chain) + 1 < MaxChain
    /\ Count(chain, "$default") < MaxDefaults
    /\ IF Len(node.path) = 0
         THEN /\ out' = Thrown("Error")
              /\ node' = node
         ELSE /\ node' = buildDefault(node.source, node.path, value,
                                      withDefaultTrue(createMissing))
              /\ out' = out
    /\ chain' = Append(chain, Dflt(value, createMissing))
    /\ UNCHANGED <<api, src, fns, operands, shape, callers>>

JsonSetPipe ==
  \E source \in Sources, n \in 1..MaxPipe :
    \E args \in [1..n -> PipeFns] :
      /\ api = "none"
      /\ api' = "pipe"
      /\ src' = source
      /\ fns' = args
      /\ out' = jsonSetPipe(source, args)
      /\ UNCHANGED <<node, chain, operands, shape, callers>>

\* jsonMerge on the column, on literals, or on the result of an earlier
\* merge.
JsonMerge ==
  LET earlier == IF api = "merge" THEN {out} ELSE {}
      choices == {Column} \cup MergeLiterals \cup earlier
  IN \E left \in choices, right \in choices :
       /\ api \in {"none", "merge"}
       /\ MergeDepth(out) < MaxMerge
       /\ api' = "merge"
       /\ operands' = <<left, right>>
       /\ out' = jsonMerge(left, right)
       /\ UNCHANGED <<src, node, chain, fns, shape, callers>>

JsonArrayPush ==
  \E target \in ArrayTargets, k \in 1..MaxPush :
    \E values \in [1..k -> ArrayValues] :
      /\ api = "none"
      /\ api' = "array"
      /\ src' = target
      /\ chain' = [i \in 1..k |-> Step("arrayPush", "", values[i], "omitted")]
      /\ out' = jsonArrayPush(target, values)
      /\ UNCHANGED <<node, fns, operands, shape, callers>>

JsonArraySet ==
  \E target \in ArrayTargets, index \in Indexes, value \in ArrayValues :
    /\ api = "none"
    /\ api' = "array"
    /\ src' = target
    /\ chain' = <<Step("arraySet", NumberText(index), value, "omitted")>>
    /\ out' = jsonArraySet(target, index, value)
    /\ UNCHANGED <<node, fns, operands, shape, callers>>

JsonArrayDelete ==
  \E target \in ArrayTargets, index \in Indexes :
    /\ api = "none"
    /\ api' = "array"
    /\ src' = target
    /\ chain' = <<Step("arrayDelete", NumberText(index), HUndef, "omitted")>>
    /\ out' = jsonArrayDelete(target, index)
    /\ UNCHANGED <<node, fns, operands, shape, callers>>

\* jsonBuild on a leaf literal, or on a literal that nests the literal of
\* the call before.
JsonBuild ==
  \E value \in (IF api = "none" THEN BuildLeaves ELSE Wraps(chain[1].v)) :
    /\ api \in {"none", "build"}
    /\ Depth(value) <= MaxDepth
    /\ api' = "build"
    /\ chain' = <<Step("build", "", value, "omitted")>>
    /\ out' = jsonBuild(value)
    /\ UNCHANGED <<src, node, fns, operands, shape, callers>>

\* jsonArrayPush of one literal, plain or holding fragments and undefined
\* entries.
JsonArrayPushLiteral ==
  \E value \in (IF api = "none" THEN BuildLeaves ELSE Wraps(chain[1].v)) :
    /\ api \in {"none", "push"}
    /\ Depth(value) < MaxDepth
    /\ api' = "push"
    /\ src' = Column
    /\ chain' = <<Step("arrayPush", "", value, "omitted")>>
    /\ out' = jsonArrayPush(Column, <<value>>)
    /\ UNCHANGED <<node, fns, operands, shape, callers>>

JsonCoalesce ==
  \E source \in CoalesceOperands, value \in CoalesceOperands :
    /\ api = "none"
    /\ api' = "coalesce"
    /\ operands' = <<source, value>>
    /\ out' = jsonCoalesce(source, value)
    /\ UNCHANGED <<src, node, chain, fns, shape, callers>>

\* The setter navigated with any member name; one value, one default.
NavGet ==
  \E property \in AnyMembers :
    /\ api = "set"
    /\ out = NoFrag
    /\ Len(chain) < MaxPath
    /\ node' = createValue(node.source, node.path, property)
    /\ chain' = Append(chain, Nav(property))
    /\ UNCHANGED <<api, src, out, fns, operands, shape, callers>>

NavSet ==
  /\ api = "set"
  /\ out = NoFrag
  /\ out' = buildSet(node.source, node.path, HStr("dark"),
                     withDefaultTrue("omitted"))
  /\ chain' = Append(chain, SetTo(HStr("dark"), "omitted"))
  /\ UNCHANGED <<api, src, node, fns, operands, shape, callers>>

NavDefault ==
  /\ api = "set"
  /\ out = NoFrag
  /\ Len(chain) < MaxPath
  /\ IF Len(node.path) = 0
       THEN /\ out' = Thrown("Error")
            /\ node' = node
       ELSE /\ node' = buildDefault(node.source, node.path, HObj(<<>>),
                                    withDefaultTrue("omitted"))
            /\ out' = out
  /\ chain' = Append(chain, Dflt(HObj(<<>>), "omitted"))
  /\ UNCHANGED <<api, src, fns, operands, shape, callers>>

\* Several callers share the root setter of one source.  The proxies made
\* so far are kept in creation order and each caller holds one of them.
SharedJsonSet ==
  \E source \in Sources :
    /\ api = "none"
    /\ api' = "shared"
    /\ src' = source
    /\ callers' = [nodes |-> <<jsonSet(source)>>,
                   held |-> [c \in Callers |-> 1],
                   chain |-> [c \in Callers |-> <<>>],
                   out |-> [c \in Callers |-> NoFrag]]
    /\ UNCHANGED <<node, out, chain, fns, operands, shape>>

SharedGet ==
  \E c \in Callers, property \in Keys :
    /\ api = "shared"
    /\ Len(callers.nodes) < MaxNodes
    /\ LET got == getMember(callers.nodes, callers.held[c], property)
       IN callers' = [nodes |-> got.nodes,
                      held |-> [callers.held EXCEPT ![c] = got.id],
                      chain |-> [callers.chain EXCEPT
                                   ![c] = Append(@, Nav(property))],
                      out |-> [callers.out EXCEPT ![c] = NoFrag]]
    /\ UNCHANGED <<api, src, node, out, chain, fns, operands, shape>>

SharedDefault ==
  \E c \in Callers :
    /\ api = "shared"
    /\ Len(callers.nodes) < MaxNodes
    /\ Len(callers.nodes[callers.held[c]].path) > 0
    /\ LET got == callDefault(callers.nodes, callers.held[c], CallerValue(c),
                              withDefaultTrue("omitted"))
       IN callers' = [nodes |-> got.nodes,
                      held |-> [callers.held EXCEPT ![c] = got.id],
                      chain |-> [callers.chain EXCEPT
                                   ![c] = Append(@, Dflt(CallerValue(c),
                                                         "omitted"))],
                      out |-> [callers.out EXCEPT ![c] = NoFrag]]
    /\ UNCHANGED <<api, src, node, out, chain, fns, operands, shape>>

SharedSet ==
  \E c \in Callers :
    /\ api = "shared"
    /\ callers.out[c] = NoFrag
    /\ LET nd == callers.nodes[callers.held[c]]
       IN callers' = [callers EXCEPT
                        !.out[c] = buildSet(nd.source, nd.path, CallerValue(c),
                                            withDefaultTrue("omitted"))]
    /\ UNCHANGED <<api, src, node, out, chain, fns, operands, shape>>

NextShared == SharedJsonSet \/ SharedGet \/ SharedDefault \/ SharedSet

\* The type checker follows the caller: jsonSet(source), a member and
\* $default are accepted where the type of the node has the member.
TypedJsonSet ==
  \E source \in TypedSources :
    /\ api = "none"
    /\ api' = "typed"
    /\ shape' = RootType(source)
    /\ chain' = <<>>
    /\ UNCHANGED <<src, node, out, fns, operands, callers>>

TypedGet ==
  /\ api = "typed"
  /\ \E K \in SQLJSONSet(shape) \ {"$set", "$default"} :
       /\ shape' = MemberType(shape, K)
       /\ chain' = Append(chain, Nav(K))
  /\ UNCHANGED <<api, src, node, out, fns, operands, callers>>

TypedDefault ==
  /\ api = "typed"
  /\ "$default" \in SQLJSONSet(shape)
  /\ shape' = SQLJSONDefaultFn(shape)
  /\ chain' = Append(chain, Dflt(HObj(<<>>), "omitted"))
  /\ UNCHANGED <<api, src, node, out, fns, operands, callers>>

\* $set type-checks on every node but the root and returns a fragment of
\* the type of the source, which is no setter.
TypedSet ==
  /\ api = "typed"
  /\ "$set" \in SQLJSONSet(shape)
  /\ api' = "fragment"
  /\ shape' = Shape(shape.source, <<>>, FALSE, "sql", FALSE)
  /\ chain' = Append(chain, SetTo(HNull, "omitted"))
  /\ UNCHANGED <<src, node, out, fns, operands, callers>>

NextTyped == TypedJsonSet \/ TypedGet \/ TypedDefault \/ TypedSet

AccessSymbol ==
  \E description \in SymbolDescriptions :
    /\ api = "access"
    /\ out = NoFrag
    /\ node' = getSymbol(node, description).node
    /\ out' = getSymbol(node, description).out
    /\ chain' = Append(chain, Sym(description))
    /\ UNCHANGED <<api, src, fns, operands, shape, callers>>

NavSymbol ==
  \E description \in SymbolDescriptions :
    /\ api = "set"
    /\ out = NoFrag
    /\ node' = getSymbol(node, description).node
    /\ out' = getSymbol(node, description).out
    /\ chain' = Append(chain, Sym(description))
    /\ UNCHANGED <<api, src, fns, operands, shape, callers>>

NextAccess == JsonAccess \/ AccessGet \/ AccessPath \/ AccessValue

NextSet == JsonSet \/ SetGet \/ SetSet \/ SetDefault \/ JsonSetPipe

NextDefaults == JsonSet \/ SetGet \/ SetDefault

NextMerge == JsonMerge

NextArray == JsonArrayPush \/ JsonArraySet \/ JsonArrayDelete

NextBuild == JsonBuild

NextPush == JsonArrayPushLiteral

NextCoalesce == JsonCoalesce

NextNav == JsonSet \/ NavGet \/ NavSet \/ NavDefault

NextPath == NextAccess \/ NextNav

NextSymbol == AccessSymbol \/ NavSymbol

NextMember == NextPath \/ NextSymbol

Next ==
  NextAccess \/ NextSet \/ NextMerge \/ NextArray \/ NextBuild
    \/ NextCoalesce \/ NextNav \/ NextSymbol \/ NextTyped \/ NextShared
    \/ NextPush

SpecAccess == Init /\ [][NextAccess]_vars

SpecSet == Init /\ [][NextSet]_vars

SpecDefaults == Init /\ [][NextDefaults]_vars

SpecMerge == Init /\ [][NextMerge]_vars

SpecArray == Init /\ [][NextArray]_vars

SpecBuild == Init /\ [][NextBuild]_vars

SpecCoalesce == Init /\ [][NextCoalesce]_vars

SpecPush == Init /\ [][NextPush]_vars

SpecPath == Init /\ [][NextPath]_vars

SpecMember == Init /\ [][NextMember]_vars

SpecTyped == Init /\ [][NextTyped]_vars

SpecShared == Init /\ [][NextShared]_vars

Spec == Init /\ [][Next]_vars

(***************************************************************************)
(* Properties.                                                             *)
(***************************************************************************)
Last(seq) == seq[Len(seq)]

\* The members navigated so far that name a segment, in navigation order.
NavSegments(c) ==
  LET navs == SelectSeq(c, LAMBDA st : st.op = "nav" /\ st.m # "")
  IN [i \in 1..Len(navs) |-> navs[i].m]

InlineSegments(p) == [i \in 1..Len(p) |-> Inline("string", p[i])]

FlagText(flag) == IF flag = "false" THEN "false" ELSE "true"

\* C1: for a non-empty path, $path is exactly one jsonb_extract_path call
\* and $value exactly one jsonb_extract_path_text call, whose arguments are
\* the original source followed by every navigated segment in order; for
\* the empty path $path is the source itself.
C1_AccessIsOneFlatCall ==
  (api = "access" /\ out # NoFrag) =>
    LET p == NavSegments(chain)
        fn == IF Last(chain).op = "$path"
                THEN "jsonb_extract_path"
                ELSE "jsonb_extract_path_text"
    IN IF Len(p) = 0
         THEN Last(chain).op = "$path" => out = src
         ELSE /\ out.op = fn
              /\ out.args[1] = src
              /\ out.args = <<src>> \o InlineSegments(p)

C1_Witness ==
  /\ api = "access"
  /\ Len(NavSegments(chain)) = 3
  /\ Len(chain) > 3
  /\ Last(chain).op = "$path"
  /\ out.op = "jsonb_extract_path"

\* C2: $set(v, createMissing) on a non-empty path compiles to
\* jsonb_set(source, array[segments]::text[], Compile(v), flag) over the
\* bound source, the flag being false exactly when false is passed.
C2_SetCompilesToJsonbSet ==
  (api = "set" /\ Len(chain) > 0 /\ Last(chain).op = "$set"
     /\ Len(NavSegments(chain)) > 0) =>
    LET call == Last(chain)
    IN /\ out = Frag("jsonb_set", "",
                     <<node.source,
                       Frag("array_text", "", InlineSegments(NavSegments(chain))),
                       jsonBuild(call.v),
                       Inline("boolean", FlagText(call.cm))>>)
       /\ Count(chain, "$default") = 0 => node.source = src

C2_Witness ==
  /\ api = "set"
  /\ Len(chain) = 4
  /\ Last(chain).op = "$set"
  /\ Last(chain).cm = "false"
  /\ out.op = "jsonb_set"
  /\ out.args[4].s = "false"
  /\ Len(out.args[2].args) = 3

\* The number of jsonb_set calls nested through the first argument.
RECURSIVE SetNesting(_)
SetNesting(f) == IF f.op = "jsonb_set" THEN 1 + SetNesting(f.args[1]) ELSE 0

\* The fragment the nested jsonb_set calls finally write into.
RECURSIVE InnermostSource(_)
InnermostSource(f) ==
  IF f.op = "jsonb_set" THEN InnermostSource(f.args[1]) ELSE f

RepairExpr(S, p, d) ==
  Frag("json_query_default", "",
       <<Frag("coalesce", "",
              <<Frag("jsonb_extract_path", "", <<S>> \o InlineSegments(p)),
                Raw("'null'::jsonb")>>),
         jsonBuild(d)>>)

C3_DefaultStep ==
  (api = "set" /\ chain' # chain /\ Last(chain').op = "$default"
     /\ Len(node.path) > 0) =>
    /\ node'.path = node.path
    /\ node'.source =
         Frag("jsonb_set", "",
              <<node.source,
                Frag("array_text", "", InlineSegments(node.path)),
                RepairExpr(node.source, node.path, Last(chain').v),
                Inline("boolean", FlagText(Last(chain').cm))>>)

C3_SetAfterDefaults ==
  (api = "set" /\ out.op = "jsonb_set") =>
    /\ out.args[1] = node.source
    /\ out.args[2].args = InlineSegments(NavSegments(chain))
    /\ out.args[3] = jsonBuild(Last(chain).v)
    /\ Last(chain).cm = "omitted" => out.args[4] = Inline("boolean", "true")
    /\ SetNesting(out) = Count(chain, "$default") + 1
    /\ InnermostSource(out) = src

\* C3: $default on a non-empty path returns a setter whose source is
\* jsonb_set(S, p, Repair, createMissing) and whose path is p; a following
\* $set writes into that source at the extended path, and n $default calls
\* followed by $set give n + 1 nested jsonb_set calls around the source.
C3_DefaultSynthesizesSource == [][C3_DefaultStep]_vars /\ []C3_SetAfterDefaults

C3_Witness ==
  /\ api = "set"
  /\ Count(chain, "$default") = 2
  /\ out.op = "jsonb_set"
  /\ Len(node.path) = 3
  /\ chain[2].op = "$default"
  /\ chain[4].op = "$default"

(***************************************************************************)
(* Evaluated results.  The column of the row the fragment is run against   *)
(* holds one of Rows.                                                      *)
(***************************************************************************)
User == JObj("name" :> JStr("John"))

Rows ==
  {SqlNull,
   JObj(<<>>),
   JObj("user" :> User),
   JObj(("user" :> User) @@ ("profile" :> JNull)),
   JObj(("user" :> User) @@ ("profile" :> JObj("avatar" :> JStr("a.jpg")))),
   JObj("profile" :> JObj(("avatar" :> JStr("a.jpg"))
                            @@ ("preferences" :> JObj(<<>>)))),
   JObj(("user" :> User)
          @@ ("profile" :> JObj("preferences" :>
                JObj(("theme" :> JStr("light")) @@ ("x" :> JNum("1")))))),
   JObj("profile" :> JObj("preferences" :> JNull)),
   JObj(("preferences" :> JNull) @@ ("theme" :> JObj("theme" :> JStr("x")))),
   JObj(("theme" :> JNull) @@ ("preferences" :> JObj("profile" :> JNull)))}

ObjectRows == {row \in Rows : row.t = "object"}

Remove(j, k) == JObj([x \in (DOMAIN j.o) \ {k} |-> j.o[x]])

\* The JSON value a host literal denotes, embedded fragments evaluated
\* in the row.
RECURSIVE HostValue(_, _)
HostValue(h, row) ==
  CASE h.t = "sql" -> Eval(h.f, row)
    [] h.t = "string" -> JStr(h.s)
    [] h.t = "number" -> JNum(h.s)
    [] h.t = "boolean" -> JBool(h.s)
    [] h.t = "array" ->
         JArr([i \in 1..Len(h.a) |-> BuildArg(HostValue(h.a[i], row))])
    [] h.t = "object" ->
         JObj([k \in {h.e[i].k : i \in 1..Len(h.e)} |->
                 LET i == CHOOSE i \in 1..Len(h.e) : h.e[i].k = k
                 IN BuildArg(HostValue(h.e[i].v, row))])
    [] OTHER -> JNull

\* The chain p.$default(d).k.$set(x), with createMissing not false.
IsDefaultThenSet ==
  /\ api = "set"
  /\ src = Column
  /\ Len(chain) = 4
  /\ chain[1].op = "nav"
  /\ chain[2].op = "$default" /\ chain[2].cm # "false"
  /\ chain[3].op = "nav"
  /\ chain[4].op = "$set" /\ chain[4].cm # "false"

\* C4: evaluating p.$default(d).k.$set(x) on a source object: when p is
\* absent the result is the source plus p holding d with k replaced by x;
\* when p holds an object the result is the source with only k under p
\* replaced by x.
C4_DefaultNeverClobbers ==
  IsDefaultThenSet =>
    \A row \in ObjectRows :
      LET p == chain[1].m
          k == chain[3].m
          d == HostValue(chain[2].v, row)
          x == HostValue(chain[4].v, row)
          result == Eval(out, row)
      IN /\ p \notin DOMAIN row.o => result = Put(row, p, Put(d, k, x))
         /\ (p \in DOMAIN row.o /\ row.o[p].t = "object") =>
              result = Put(row, p, Put(row.o[p], k, x))

C4_Witness ==
  /\ IsDefaultThenSet
  /\ chain[1].m = "profile"
  /\ chain[3].m = "preferences"
  /\ chain[2].v = HObj(<<Entry("preferences", HObj(<<>>))>>)
  /\ \E row \in ObjectRows : "profile" \notin DOMAIN row.o
  /\ \E row \in ObjectRows :
       /\ "profile" \in DOMAIN row.o
       /\ row.o["profile"].t = "object"
       /\ "avatar" \in DOMAIN row.o["profile"].o
       /\ "avatar" \in DOMAIN Eval(out, row).o["profile"].o

\* A chain p.$default(d, flag) ... $set(x): a $default at a top-level key
\* followed by any edit.
IsDefaultChain ==
  /\ api = "set"
  /\ src = Column
  /\ Len(chain) >= 3
  /\ chain[1].op = "nav"
  /\ chain[2].op = "$default"
  /\ Last(chain).op = "$set"

NullAndAbsentAgree ==
  \A row \in ObjectRows :
    LET p == chain[1].m
    IN (p \in DOMAIN row.o /\ row.o[p] = JNull) =>
         Eval(out, row) = Eval(out, Remove(row, p))

\* C5 as claimed: under every $default chain, a source holding JSON null
\* at p and the same source without p evaluate to the same document.
C5_NullEqualsAbsentAnyFlag == IsDefaultChain => NullAndAbsentAgree

\* C5 as amended: the same, for a $default at p whose createMissing is
\* omitted or true.
C5_NullEqualsAbsent ==
  (IsDefaultChain /\ chain[2].cm # "false") => NullAndAbsentAgree

C5_Witness ==
  /\ IsDefaultChain
  /\ chain[2].cm = "omitted"
  /\ chain[1].m = "profile"
  /\ Len(chain) = 5
  /\ \E row \in ObjectRows :
       /\ "profile" \in DOMAIN row.o
       /\ row.o["profile"] = JNull
       /\ Eval(out, row) = Eval(out, Remove(row, "profile"))
       /\ Eval(out, row) # row

ThemePath == <<"profile", "preferences", "theme">>

\* setter.profile.$default({preferences: {}}).preferences.theme.$set('dark')
IsReadmeChain ==
  /\ api = "set"
  /\ src = Column
  /\ chain = <<Nav("profile"),
               Dflt(HObj(<<Entry("preferences", HObj(<<>>))>>), "omitted"),
               Nav("preferences"), Nav("theme"),
               SetTo(HStr("dark"), "omitted")>>

\* The sources C6 names: profile absent, JSON null, or an object.
ReadmeRows ==
  {row \in ObjectRows :
     "profile" \in DOMAIN row.o => row.o["profile"].t \in {"null", "object"}}

\* C6: with $default the nested set always works: the result holds 'dark'
\* at profile.preferences.theme for every such source.
C6_NestedSetAlwaysWorks ==
  IsReadmeChain =>
    \A row \in ReadmeRows :
      ExtractPath(Eval(out, row), ThemePath) = JStr("dark")

(***************************************************************************)
(* jsonSetPipe.                                                            *)
(***************************************************************************)
\* The jsonb_set calls a function of the pipe adds around its source.
Layers(fn) == Count(fn, "$default") + 1

RECURSIVE LayersUpTo(_, _)
LayersUpTo(args, i) ==
  IF i = 0 THEN 0 ELSE LayersUpTo(args, i - 1) + Layers(args[i])

\* The fragment left after removing the k outermost jsonb_set calls.
RECURSIVE Peel(_, _)
Peel(f, k) == IF k = 0 THEN f ELSE Peel(f.args[1], k - 1)

\* The accumulator after the first i functions, read off the result.
Accumulator(i) ==
  Peel(out, LayersUpTo(fns, Len(fns)) - LayersUpTo(fns, i))

\* C7: jsonSetPipe reduces left to right: the first accumulator is
\* coalesce(source, 'null'::jsonb), and function i is called with a fresh
\* root setter bound to the result of function i - 1, function 1 innermost.
C7_PipeReducesLeftToRight ==
  api = "pipe" =>
    /\ SetNesting(out) = LayersUpTo(fns, Len(fns))
    /\ Accumulator(0) = Frag("coalesce", "", <<src, Raw("'null'::jsonb")>>)
    /\ \A i \in 1..Len(fns) :
         Accumulator(i) = applyChain(Node(Accumulator(i - 1), <<>>), fns[i])
    /\ Accumulator(Len(fns)) = out

C7_Witness ==
  /\ api = "pipe"
  /\ Len(fns) = 2
  /\ fns[1] # fns[2]
  /\ Count(fns[1], "$default") = 1
  /\ SetNesting(out) = 3

(***************************************************************************)
(* jsonMerge.                                                              *)
(***************************************************************************)
\* C8: merge(left, right) compiles to
\* coalesce(left, 'null'::jsonb) || coalesce(right, 'null'::jsonb), the
\* left operand on the left; a chained merge wraps the inner merge as an
\* operand without changing it.
C8_MergeCompiles ==
  api = "merge" =>
    /\ out = Frag("concat", "",
                  <<Frag("coalesce", "", <<operands[1], Raw("'null'::jsonb")>>),
                    Frag("coalesce", "", <<operands[2], Raw("'null'::jsonb")>>)>>)
    /\ Len(out.args) = 2

C8_Witness ==
  /\ api = "merge"
  /\ operands[1].op = "concat"
  /\ operands[2] = Column
  /\ out.args[1].args[1].op = "concat"
  /\ out.args[1].args[1].args[1].args[1] = Raw("'[1, 2]'::jsonb")
  /\ out.args[1].args[1].args[2].args[1] = Raw("'3'::jsonb")

\* The values the column may hold when it is an operand of a merge.
MergeRows ==
  {SqlNull, JNull, JStr("x"), JNum("0"), JBool("true"),
   JArr(<<>>), JArr(<<JStr("x"), JNull>>),
   JArr(<<JArr(<<JNum("3")>>)>>),
   JObj(<<>>), JObj(("b" :> JStr("x")) @@ ("c" :> JNull))}

IsJson(j) == j.t \notin {"sqlnull", "error"}

\* C9: the evaluated merge: array with array is the concatenation; array
\* with non-array appends; non-array with array prepends; object with
\* object is the key union, the right operand winning; every other pair,
\* JSON null included, is the two-element array [left, right].
C9_MergeLaws ==
  api = "merge" =>
    \A row \in MergeRows :
      LET l == Eval(operands[1], row)
          r == Eval(operands[2], row)
          res == Eval(out, row)
      IN (IsJson(l) /\ IsJson(r)) =>
           CASE l.t = "array" /\ r.t = "array" -> res = JArr(l.a \o r.a)
             [] l.t = "array" /\ r.t # "array" -> res = JArr(Append(l.a, r))
             [] l.t # "array" /\ r.t = "array" -> res = JArr(<<l>> \o r.a)
             [] l.t = "object" /\ r.t = "object" ->
                  /\ res.t = "object"
                  /\ DOMAIN res.o = (DOMAIN l.o) \cup (DOMAIN r.o)
                  /\ \A k \in DOMAIN r.o : res.o[k] = r.o[k]
                  /\ \A k \in (DOMAIN l.o) \ (DOMAIN r.o) : res.o[k] = l.o[k]
             [] OTHER -> res = JArr(<<l, r>>)

C9_Witness ==
  /\ api = "merge"
  /\ operands = <<Column, Raw("'{\"a\": 1, \"b\": 2}'::jsonb")>>
  /\ Eval(out, JObj(("b" :> JStr("x")) @@ ("c" :> JNull)))
       = JObj(("a" :> JNum("1")) @@ ("b" :> JNum("2")) @@ ("c" :> JNull))
  /\ Eval(out, JNull) = JArr(<<JNull, JObj(("a" :> JNum("1")) @@ ("b" :> JNum("2")))>>)
  /\ Eval(out, JArr(<<>>)) = JArr(<<JObj(("a" :> JNum("1")) @@ ("b" :> JNum("2")))>>)

JsonNullFor(j) == IF j = SqlNull THEN JNull ELSE j

ArrayRows ==
  {SqlNull, JNull, JArr(<<>>), JArr(<<JStr("x")>>),
   JArr(<<JStr("x"), JNull>>),
   JArr(<<JNum("1"), JArr(<<JNum("3")>>), JObj("a" :> JNum("1"))>>),
   JObj(<<>>), JNum("0")}

IsNullish(j) == j \in {SqlNull, JNull}

\* The JSON values of the values handed to the operation, in order.
Handed(row) == [i \in 1..Len(chain) |-> HostValue(chain[i].v, row)]

\* The target as the operations wrap it before anything else.
WrappedTarget ==
  Call("json_query_default",
       <<Call("coalesce", <<src, Raw("'null'::jsonb")>>),
         Raw("'[]'::jsonb")>>)

C12_PushAppendsInOrder ==
  (api = "array" /\ chain[1].op = "arrayPush") =>
    \A row \in ArrayRows :
      LET a == Eval(src, row)
          r == Eval(out, row)
      IN a.t = "array" =>
           /\ r = JArr(a.a \o Handed(row))
           /\ Len(r.a) = Len(a.a) + Len(chain)

C12_Witness ==
  /\ api = "array"
  /\ src = Column
  /\ chain = <<Step("arrayPush", "", HArr(<<HNum("1"), HNum("2")>>), "omitted"),
               Step("arrayPush", "", HStr("x"), "omitted")>>
  /\ Eval(out, JArr(<<JStr("x"), JNull>>))
       = JArr(<<JStr("x"), JNull, JArr(<<JNum("1"), JNum("2")>>), JStr("x")>>)

\* C13: arraySet(a, i, v) with i >= 0 replaces element i when i is less
\* than the length n of a, and appends v as one new last element when
\* i >= n, without padding.
C13_SetReplacesOrAppends ==
  (api = "array" /\ chain[1].op = "arraySet" /\ IntOf[chain[1].m] >= 0) =>
    \A row \in ArrayRows :
      LET a == Eval(src, row)
          i == IntOf[chain[1].m]
          v == Handed(row)[1]
      IN a.t = "array" =>
           Eval(out, row) = IF i < Len(a.a)
                              THEN JArr([a.a EXCEPT ![i + 1] = v])
                              ELSE JArr(Append(a.a, v))

C13_Witness ==
  /\ api = "array"
  /\ src = Column
  /\ chain = <<Step("arraySet", "3", HNum("3"), "omitted")>>
  /\ Eval(out, JArr(<<JStr("x")>>)) = JArr(<<JStr("x"), JNum("3")>>)
  /\ Eval(out, JArr(<<JStr("x"), JNull>>)) = JArr(<<JStr("x"), JNull, JNum("3")>>)

\* C14: arrayDelete(a, i) removes the element at i when 0 <= i < n, the
\* element at n + i when -n <= i < 0, and returns a unchanged when i is
\* out of range; it never raises.
C14_DeleteByIndex ==
  (api = "array" /\ chain[1].op = "arrayDelete") =>
    \A row \in ArrayRows :
      LET a == Eval(src, row)
          n == Len(a.a)
          i == IntOf[chain[1].m]
          at == IF i < 0 THEN n + i ELSE i
          r == Eval(out, row)
      IN a.t = "array" =>
           /\ r # SqlError
           /\ r = IF at >= 0 /\ at < n
                    THEN JArr([k \in 1..(n - 1) |->
                                 IF k <= at THEN a.a[k] ELSE a.a[k + 1]])
                    ELSE a

C14_Witness ==
  /\ api = "array"
  /\ src = Column
  /\ chain = <<Step("arrayDelete", "-1", HUndef, "omitted")>>
  /\ Eval(out, JArr(<<JStr("x"), JNull>>)) = JArr(<<JStr("x")>>)
  /\ Eval(out, JArr(<<>>)) = JArr(<<>>)

(***************************************************************************)
(* jsonBuild, evaluated.  The column inside a literal holds one of         *)
(* BuildRows.                                                              *)
(***************************************************************************)
BuildRows ==
  {SqlNull, JNull, JNum("3"), JArr(<<JStr("x")>>), JObj("a" :> JBool("true"))}

\* No undefined anywhere in the literal.
RECURSIVE IsJsonLiteral(_)
IsJsonLiteral(h) ==
  /\ h.t # "undefined"
  /\ \A i \in 1..Len(h.a) : IsJsonLiteral(h.a[i])
  /\ \A i \in 1..Len(h.e) : IsJsonLiteral(h.e[i].v)

\* C15: for every literal of primitives, arrays and string-keyed objects,
\* empty ones included, with fragments at interior positions, jsonBuild
\* returns a fragment that evaluates to the JSON value of the literal with
\* each fragment replaced by its own value; it raises for none.
C15_BuildRoundTrip ==
  (api = "build" /\ IsJsonLiteral(chain[1].v)) =>
    /\ out.op # "throw"
    /\ \A row \in BuildRows :
         Eval(out, row) = HostValue(chain[1].v, row)

C15_Witness ==
  /\ api = "build"
  /\ chain[1].v = HObj(<<Entry("b", HSql(Column)),
                         Entry("a", HArr(<<HStr(""), HArr(<<>>)>>))>>)
  /\ Eval(out, JNum("3"))
       = JObj(("a" :> JArr(<<JStr(""), JArr(<<>>)>>)) @@ ("b" :> JNum("3")))

\* The keys of the entries of an object literal whose value is not
\* undefined.
DefinedKeys(h) ==
  {h.e[i].k : i \in {j \in 1..Len(h.e) : h.e[j].v.t # "undefined"}}

\* C16: an object entry whose value is undefined is dropped (only
\* undefined entries build the empty object); an entry whose value is
\* null is built as that key with JSON null.
C16_UndefinedEntryDropped ==
  (api = "build" /\ chain[1].v.t = "object") =>
    \A row \in BuildRows :
      LET r == Eval(out, row)
          h == chain[1].v
      IN /\ r.t = "object"
         /\ DOMAIN r.o = DefinedKeys(h)
         /\ \A i \in 1..Len(h.e) : h.e[i].v.t = "null" => r.o[h.e[i].k] = JNull

C16_Witness ==
  /\ api = "build"
  /\ chain[1].v = HObj(<<Entry("b", HUndef), Entry("a", HNull)>>)
  /\ Eval(out, JNull) = JObj("a" :> JNull)

(***************************************************************************)
(* jsonCoalesce, evaluated.                                                *)
(***************************************************************************)
CoalesceRows ==
  {SqlNull, JNull, JBool("false"), JNum("0"), JStr(""), JArr(<<>>),
   JObj(<<>>), JStr("x")}

\* C17: jsonCoalesce(source, value) evaluates to value when source is SQL
\* NULL or JSON null and to source for every other JSON value, the falsy
\* and empty ones (false, 0, "", [], {}) included.
C17_CoalesceOnlyNullish ==
  api = "coalesce" =>
    \A row \in CoalesceRows :
      LET s == Eval(operands[1], row)
          v == Eval(operands[2], row)
      IN Eval(out, row) = IF s = SqlNull \/ s = JNull THEN v ELSE s

C17_Witness ==
  /\ api = "coalesce"
  /\ operands = <<Column, Raw("'[1, 2]'::jsonb")>>
  /\ \A row \in CoalesceRows \ {SqlNull, JNull} : Eval(out, row) = row
  /\ Eval(out, JNull) = JArr(<<JNum("1"), JNum("2")>>)
  /\ Eval(out, SqlNull) = JArr(<<JNum("1"), JNum("2")>>)

(***************************************************************************)
(* The root of the accessor and of the setter.                             *)
(***************************************************************************)
\* C18: the $value of the root accessor (empty path) is the source
\* fragment itself, not a jsonb_extract_path_text call.
C18_RootValueIsIdentity ==
  (api = "access" /\ out # NoFrag /\ Last(chain) = GetValue
     /\ node.path = <<>>) =>
    out = src

\* C19: $set and $default on a node whose path is empty raise instead of
\* returning a fragment, while $set on every node reached by at least one
\* navigation step, and on every setter returned by $default, returns a
\* fragment.
C19_RootHasNoReplace ==
  (api = "set" /\ Len(chain) > 0) =>
    /\ (Last(chain).op \in {"$set", "$default"} /\ Len(node.path) = 0) =>
         out.op = "throw"
    /\ (Last(chain).op = "$set"
          /\ Count(chain, "nav") + Count(chain, "$default") >= 1) =>
         out.op = "jsonb_set"

(***************************************************************************)
(* References to the source.                                               *)
(***************************************************************************)
RECURSIVE Occurrences(_, _)
RECURSIVE OccurrencesIn(_, _)
\* How often the fragment s occurs in the fragment f.
Occurrences(f, s) == IF f = s THEN 1 ELSE OccurrencesIn(f.args, s)

OccurrencesIn(args, s) ==
  IF Len(args) = 0 THEN 0
  ELSE Occurrences(Head(args), s) + OccurrencesIn(Tail(args), s)

Reads == api = "access" /\ out # NoFrag

Writes == api = "set" /\ out.op = "jsonb_set"

Defaults ==
  api = "set" /\ out = NoFrag /\ Len(chain) > 0
    /\ Last(chain).op = "$default"

\* C20 as stated: the fragment compiled for reading, writing or
\* defaulting at a path references the original source exactly once.
C20_SingleSource ==
  /\ Reads => Occurrences(out, src) = 1
  /\ Writes => Occurrences(out, src) = 1
  /\ Defaults => Occurrences(node.source, src) = 1

\* C20: a fragment compiled for reading references the original source
\* exactly once, and so does a $set with no $default before it; every
\* $default references the source of its setter twice, so after n
\* $default calls the original source occurs 2^n times.
C20_SourceTwicePerDefault ==
  /\ Reads => Occurrences(out, src) = 1
  /\ Writes => Occurrences(out, src) = 2 ^ Count(chain, "$default")
  /\ Defaults => Occurrences(node.source, src) = 2 ^ Count(chain, "$default")

C20_Witness ==
  /\ api = "set"
  /\ chain = <<Nav("profile"), Dflt(HObj(<<>>), "omitted"), Nav("theme"),
               SetTo(HStr("dark"), "omitted")>>
  /\ Occurrences(out, src) = 2
  /\ Occurrences(out.args[1], src) = 2

(***************************************************************************)
(* Members.                                                                *)
(***************************************************************************)
\* C21: a symbol member raises a TypeError on every accessor and setter
\* node at every depth: no fragment and no new node is returned, and the
\* path is the one navigated before, the description of the symbol not
\* being a segment of it.
C21_SymbolStep ==
  (chain' # chain /\ Last(chain').op = "symbol") =>
    /\ out' = Thrown("TypeError")
    /\ node' = node

C21_SymbolThrown ==
  (Len(chain) > 0 /\ Last(chain).op = "symbol") =>
    /\ out = Thrown("TypeError")
    /\ node.path = NavSegments(chain)

C21_SymbolRaisesTypeError == [][C21_SymbolStep]_vars /\ []C21_SymbolThrown

C21_Witness ==
  /\ api = "set"
  /\ chain = <<Nav("theme"), Dflt(HObj(<<>>), "omitted"), Sym("profile")>>
  /\ out = Thrown("TypeError")
  /\ node.path = <<"theme">>

(***************************************************************************)
(* Declared types.                                                         *)
(***************************************************************************)
\* Whether the declared type of the node or of one of its ancestors admits
\* null or undefined; a nullable column is a nullable root.
DeclaredNullable(sh) ==
  \/ sh.source.value = "nullable"
  \/ \E n \in 0..Len(sh.path) : DeclaredAt(sh, SubSeq(sh.path, 1, n)).nullish

\* C22: every setter node whose declared type, or the declared type of an
\* ancestor, admits null or undefined has the member $default, whether its
\* value is primitive or structured.
C22_NullableExposesDefault ==
  (api = "typed" /\ Count(chain, "$default") = 0 /\ DeclaredNullable(shape))
    => "$default" \in SQLJSONSet(shape)

\* The same for structured values only.
C22_NullableObjectExposesDefault ==
  (api = "typed" /\ Count(chain, "$default") = 0 /\ DeclaredNullable(shape)
     /\ IsObject(shape))
    => "$default" \in SQLJSONSet(shape)

\* The node returned by $default is not nullish, has $set and has no
\* second $default; a node that is not nullish has no $default.
DefaultDowngrades ==
  /\ (api = "typed" /\ Len(chain) > 0 /\ Last(chain).op = "$default") =>
       /\ ~IsNullishType(shape)
       /\ "$set" \in SQLJSONSet(shape)
       /\ "$default" \notin SQLJSONSet(shape)
  /\ (api = "typed" /\ ~IsNullishType(shape)) =>
       "$default" \notin SQLJSONSet(shape)

\* A member navigated below a node returned by $default whose own declared
\* type is optional or nullable.
NullableBelowDefault ==
  /\ api = "typed"
  /\ Count(chain, "$default") > 0
  /\ Last(chain).op = "nav"
  /\ Declared(shape).nullish

\* C23: $default downgrades nullability: the node it returns is not
\* nullable, has $set and no second $default; the members below it whose
\* own declared type is optional or nullable still have $default; a node
\* that is not nullable never has $default.
C23_DefaultDowngradesNullability ==
  /\ DefaultDowngrades
  /\ NullableBelowDefault => "$default" \in SQLJSONSet(shape)

\* The same with the structured members only.
C23_DefaultDowngradesObjects ==
  /\ DefaultDowngrades
  /\ (NullableBelowDefault /\ IsObject(shape))
       => "$default" \in SQLJSONSet(shape)

(***************************************************************************)
(* Paths.                                                                  *)
(***************************************************************************)
\* Every member navigated so far, in navigation order.
NavMembers(c) ==
  LET navs == SelectSeq(c, LAMBDA st : st.op = "nav")
  IN [i \in 1..Len(navs) |-> navs[i].m]

\* C24: navigating a string member m, the empty string and a decimal
\* index included, on a node of path p returns a node of path p.m: after k
\* navigation steps the path is the k members navigated, in order.
C24_NavigationExtendsPath ==
  api \in {"access", "set"} =>
    /\ node.path = NavMembers(chain)
    /\ Len(node.path) = Count(chain, "nav")

\* The same for the members that are not the empty string.
C24_NonEmptyMemberExtendsPath ==
  api \in {"access", "set"} => node.path = NavSegments(chain)

(***************************************************************************)
(* Callers sharing one root.                                               *)
(***************************************************************************)
\* The fragment the chain of caller c followed by its $set compiles to
\* when it is applied alone to a root setter of the source.
InIsolation(c) ==
  applyChain(jsonSet(src),
             Append(callers.chain[c], SetTo(CallerValue(c), "omitted")))

\* No step of any caller changes a proxy made before.
NodesKept ==
  api = "shared" =>
    \A id \in 1..Len(callers.nodes) : callers'.nodes[id] = callers.nodes[id]

\* The fragment of a caller never holds the value of another caller whose
\* $default is not on its own chain.
NoForeignEdit(c) ==
  \A d \in Callers \ {c} :
    Count(callers.chain[c], "$default") = 0 =>
      Occurrences(callers.out[c], buildPrimitive(HNum(d))) = 0

\* C25: navigation and terminal calls leave every node made before as it
\* was, so whatever the interleaving of the callers that share the root,
\* the fragment a caller gets equals the one its own calls compile to in
\* isolation and holds no edit of a sibling branch.
C25_Fragments ==
  api = "shared" =>
    \A c \in Callers :
      callers.out[c] # NoFrag =>
        /\ callers.out[c] = InIsolation(c)
        /\ NoForeignEdit(c)

C25_BranchWithoutInterference == [][NodesKept]_vars /\ []C25_Fragments

C25_Witness ==
  /\ api = "shared"
  /\ callers.chain[1] = <<Nav("profile"), Nav("theme")>>
  /\ callers.chain[2] = <<Nav("preferences")>>
  /\ callers.out[1] # NoFrag
  /\ callers.out[2] # NoFrag

(***************************************************************************)
(* Bound parameters and inlined text.                                      *)
(***************************************************************************)
\* The bound parameters of a fragment, left to right.
RECURSIVE Params(_)
RECURSIVE ParamsIn(_)
Params(f) == IF f.op \in ParamKinds THEN <<f>> ELSE ParamsIn(f.args)

ParamsIn(args) ==
  IF Len(args) = 0 THEN <<>>
  ELSE Params(Head(args)) \o ParamsIn(Tail(args))

\* Every sub-fragment of a fragment, the fragment included.
RECURSIVE SubFrags(_)
SubFrags(f) ==
  {f} \cup UNION {SubFrags(f.args[i]) : i \in 1..Len(f.args)}

\* A JSON text of a primitive value: not an array and not an object.
LeafText(s) == SubSeq(s, 1, 1) \notin {"[", "{"}

\* The arguments of g that the native functions take as literals are
\* inlined: path segments, the keys of jsonb_build_object, the
\* create_missing flag and array indices.
LiteralsInlined(g) ==
  LET n == Len(g.args)
  IN CASE g.op \in {"array_text"} ->
            \A i \in 1..n : g.args[i].op = "inline_string"
       [] g.op \in {"jsonb_extract_path", "jsonb_extract_path_text"} ->
            \A i \in 2..n : g.args[i].op = "inline_string"
       [] g.op = "jsonb_build_object" ->
            \A i \in 1..n : i % 2 = 1 => g.args[i].op = "inline_string"
       [] g.op = "jsonb_set" ->
            n = 4 => g.args[4].op = "inline_boolean"
       [] g.op = "path_literal" -> g.args[1].op = "inline_number"
       [] g.op = "minus" -> g.args[2].op = "inline_number"
       [] OTHER -> TRUE

\* Every bound parameter of g is the JSON text of a primitive value, cast
\* to jsonb.
OnlyLeavesBound(g) ==
  \A i \in 1..Len(g.args) :
    g.args[i].op \in ParamKinds =>
      /\ g.op = "cast_jsonb"
      /\ g.args[i].op = "param_string"
      /\ LeafText(g.args[i].s)

Compiled == out.op \notin {"none", "throw"}

\* C26: in every compiled fragment the path segments, the keys of built
\* objects, the createMissing flag and the array indices are inlined, and
\* the only bound parameters are the JSON texts of primitive leaf values,
\* cast to jsonb; an accessor fragment over a source without parameters
\* has none.
C26_OnlyLeavesAreParameters ==
  Compiled =>
    /\ \A g \in SubFrags(out) : LiteralsInlined(g) /\ OnlyLeavesBound(g)
    /\ (api = "access" /\ Len(Params(src)) = 0) => Len(Params(out)) = 0

(***************************************************************************)
(* Pushed values and the value builder.                                    *)
(***************************************************************************)
\* The argument of jsonb_build_array compiled for the i-th pushed value.
PushedArg(i) == out.args[2].args[i]

\* C27: arrayPush compiles every pushed value that is not a fragment as
\* jsonBuild compiles it, objects and arrays that hold fragments or
\* undefined entries included.
C27_PushUsesValueBuilder ==
  api = "push" =>
    \A i \in 1..Len(chain) :
      ~isSQLWrapper(chain[i].v) => PushedArg(i) = jsonBuild(chain[i].v)

\* The same for the pushed values that are neither arrays nor objects.
C27_PushPrimitiveAsBuilt ==
  api = "push" =>
    \A i \in 1..Len(chain) :
      chain[i].v.t \notin {"sql", "array", "object"}
        => PushedArg(i) = jsonBuild(chain[i].v)

(***************************************************************************)
(* The structure of built values.                                          *)
(***************************************************************************)
\* f is the fragment built from h by structural recursion.
RECURSIVE BuiltFrom(_, _)
BuiltFrom(h, f) ==
  CASE h.t = "sql" -> f = h.f
    [] h.t = "array" ->
         /\ f.op = "jsonb_build_array"
         /\ Len(f.args) = Len(h.a)
         /\ \A i \in 1..Len(h.a) :
              BuiltFrom(IF h.a[i].t = "undefined" THEN HNull ELSE h.a[i],
                        f.args[i])
    [] h.t = "object" ->
         LET kept == SelectSeq(h.e, LAMBDA x : x.v.t # "undefined")
         IN /\ f.op = "jsonb_build_object"
            /\ Len(f.args) = 2 * Len(kept)
            /\ \A i \in 1..Len(kept) :
                 /\ f.args[2 * i - 1] = Inline("string", kept[i].k)
                 /\ BuiltFrom(kept[i].v, f.args[2 * i])
    [] OTHER -> f = Call("cast_jsonb", <<Param("string", JSONStringify(h))>>)

\* C28: jsonBuild compiles by structural recursion: a fragment is returned
\* as it is; an array is one jsonb_build_array call with one argument per
\* element in element order, none for the empty array; an object is one
\* jsonb_build_object call with a key literal and a value per retained
\* entry in insertion order, none for the empty object; any other value
\* is its JSON text, bound and cast to jsonb.
C28_StructuralRecursion ==
  api = "build" => BuiltFrom(chain[1].v, out)

C28_Witness ==
  /\ api = "build"
  /\ chain[1].v = HObj(<<Entry("a", HArr(<<>>)), Entry("b", HSql(Column))>>)
  /\ out = Call("jsonb_build_object",
                <<Inline("string", "a"), Call("jsonb_build_array", <<>>),
                  Inline("string", "b"), Column>>)

(***************************************************************************)
(* Writers of one path in a pipe.                                          *)
(***************************************************************************)
Front(seq) == SubSeq(seq, 1, Len(seq) - 1)

\* A function of the pipe that navigates to a path and sets it.
IsPlainSet(fn) == Count(fn, "nav") = Len(fn) - 1 /\ Last(fn).op = "$set"

IsPrefix(q, path) == Len(q) <= Len(path) /\ SubSeq(path, 1, Len(q)) = q

\* The keys of the rows and of the paths written.
ProbeKeys == Keys \cup {"user", "name", "avatar", "x"}

\* The paths at which a document is compared with its source.
ProbePaths ==
  {<<k>> : k \in ProbeKeys}
    \cup {<<k, l>> : k \in ProbeKeys, l \in ProbeKeys}
    \cup {<<k, l, m>> : k \in ProbeKeys, l \in ProbeKeys, m \in ProbeKeys}

\* A pipe of two functions that set the same path.
TwoWriters ==
  /\ api = "pipe"
  /\ Len(fns) = 2
  /\ IsPlainSet(fns[1])
  /\ IsPlainSet(fns[2])
  /\ NavSegments(fns[1]) = NavSegments(fns[2])

\* On every object row where the parent of the path is an object, the
\* path holds the value of the second function and every path apart from
\* it holds what the source holds.
LastWriterWins ==
  LET path == NavSegments(fns[2])
  IN \A row \in ObjectRows :
       ExtractPath(row, Front(path)).t = "object" =>
         LET result == Eval(out, row)
         IN /\ ExtractPath(result, path) = HostValue(Last(fns[2]).v, row)
            /\ \A q \in ProbePaths :
                 (~IsPrefix(q, path) /\ ~IsPrefix(path, q)) =>
                   ExtractPath(result, q) = ExtractPath(row, q)

\* C29 as stated: in a pipe where an earlier function sets p to v1 and a
\* later one sets p to v2, the document holds v2 at p and every key off
\* the path keeps its source value.
C29_LastWriterWinsAnyFlag == TwoWriters => LastWriterWins

\* C29 as amended: the same, when the later function sets p with
\* createMissing omitted or true.
C29_LastWriterWins ==
  (TwoWriters /\ Last(fns[2]).cm # "false") => LastWriterWins

C29_Witness ==
  /\ TwoWriters
  /\ NavSegments(fns[1]) = <<"profile", "theme">>
  /\ Last(fns[1]).v = HStr("dark")
  /\ Last(fns[2]).v = HStr("light")
  /\ \E row \in ObjectRows :
       /\ ExtractPath(row, <<"profile">>).t = "object"
       /\ ExtractPath(row, <<"profile", "avatar">>) = JStr("a.jpg")
       /\ ExtractPath(Eval(out, row), <<"profile", "theme">>) = JStr("light")
       /\ ExtractPath(Eval(out, row), <<"profile", "avatar">>) = JStr("a.jpg")

(***************************************************************************)
(* Two defaults at one path.                                               *)
(***************************************************************************)
\* The setter node a caller holds after the navigation steps and $default
\* calls of steps, starting from nd.
RECURSIVE NodeAfter(_, _)
NodeAfter(nd, steps) ==
  IF Len(steps) = 0 THEN nd
  ELSE LET st == Head(steps)
       IN NodeAfter(IF st.op = "nav"
                      THEN createValue(nd.source, nd.path, st.m)
                      ELSE buildDefault(nd.source, nd.path, st.v,
                                        withDefaultTrue(st.cm)),
                    Tail(steps))

\* The chain ends with $default(d1) and $default(d2) at one node, d1 with
\* createMissing omitted or true.
TwoDefaults ==
  /\ api = "set"
  /\ out = NoFrag
  /\ Len(chain) >= 3
  /\ Last(chain).op = "$default"
  /\ Last(Front(chain)).op = "$default"
  /\ Last(Front(chain)).cm # "false"

\* C30: $default(d1) and then $default(d2) at the same path evaluates, on
\* every source object, to the document of $default(d1) alone, and a
\* value the source holds at the path is kept.
C30_FirstDefaultWins ==
  TwoDefaults =>
    LET one == NodeAfter(jsonSet(src), Front(chain))
        d2 == Last(chain)
    IN /\ node = buildDefault(one.source, one.path, d2.v,
                              withDefaultTrue(d2.cm))
       /\ \A row \in ObjectRows :
            LET both == Eval(node.source, row)
                first == Eval(one.source, row)
                held == ExtractPath(row, node.path)
            IN /\ both = first
               /\ held \notin {SqlNull, JNull} =>
                    ExtractPath(both, node.path) = held

C30_Witness ==
  /\ TwoDefaults
  /\ node.path = <<"profile">>
  /\ chain[2].v = HObj(<<Entry("preferences", HObj(<<>>))>>)
  /\ chain[3].v = HObj(<<>>)
  /\ Eval(node.source, JObj("user" :> User))
       = JObj(("user" :> User)
                @@ ("profile" :> JObj("preferences" :> JObj(<<>>))))
====
